---- MODULE Spec2Model ----
(***************************************************************************)
(* 3D-3D registration pipeline of main_3d3dRegistration.cpp.              *)
(*                                                                         *)
(* main() drives a PointcloudRegistration object through: load source,    *)
(* load target, scale / voxel configuration, align, display, validity     *)
(* check, timeline, export.  main() is modelled from the source.  The     *)
(* PointcloudRegistration class (its loaders, setters, align and export)  *)
(* is declared in a header that is not part of the sources at hand; its   *)
(* behaviour is modelled from the design document.                        *)
(*                                                                         *)
(* Two executions of the program are modelled, one after the other, on    *)
(* the same command line and environment except for showTimeline, so      *)
(* that statements comparing two runs can be checked.                     *)
(***************************************************************************)
EXTENDS Integers, Naturals, Sequences, FiniteSets, TLC

\* ------------------------------------------------------------------ bounds
MaxIterations == 3      \* iteration budget of the alignment engine
MaxRatio == 2           \* scale ratios range over 1..MaxRatio
MaxMeasurement == 2     \* measurements range over 0..MaxMeasurement
MaxVoxel == 1           \* voxel sizes (in tenths) range over -1..MaxVoxel

\* ------------------------------------------------------- program constants
EXIT_SUCCESS == 0
EXIT_FAILURE == 1
MatrixEntries == 16             \* Eigen::Matrix4d
DefaultMeasurement == 1         \* sourceMeasurement = targetMeasurement = 1.f
DefaultScaleRatio == 1          \* scaleRatio = 1.f
DefaultVoxelSize == 1           \* voxelSize = 0.1f, counted in tenths

Runs == {1, 2}

sourceFile == "source.ply"
targetFile == "target.ply"
alignmentMethodName == "GICP"

\* the two runs differ only in --showTimeline (default true)
showTimeline == [r \in Runs |-> r = 1]

\* --------------------------------------------------------- matrix entries
NaN == <<"nan", 0>>
Num(k) == <<"num", k>>

\* only the first coefficient is looked at
hasNaN_FirstOnly(M) == M # <<>> /\ M[1][1] = "nan"

\* Eigen's hasNaN(): some coefficient is not-a-number
hasNaN(M) == \E i \in DOMAIN M : M[i][1] = "nan"

\* a finite homogeneous transform: identity rotation, translation x = k
FiniteTransform(k) ==
    [i \in 1..MatrixEntries |->
        IF i \in {1, 6, 11, 16} THEN Num(1) ELSE IF i = 4 THEN Num(k) ELSE Num(0)]

\* the same with one not-a-number coefficient
NaNTransform(k) ==
    [FiniteTransform(k) EXCEPT ![((5 * k) % MatrixEntries) + 1] = NaN]

VARIABLES
    opt,          \* parsed command line shared by the runs
    env,          \* outcomes of the environment: file system and numerics
    pc,           \* position of each run in main()
    reg,          \* the PointcloudRegistration object of each run
    T,            \* main's local  const Eigen::Matrix4d T
    exitStatus,   \* value returned by main(), -1 while running
    error,        \* error raised in the run, "none" otherwise
    log,          \* ordered events of each run
    exportCalls   \* arguments of each call to tranformAndSaveCloud

vars == <<opt, env, pc, reg, T, exitStatus, error, log, exportCalls>>

NoTransform == <<>>

RegInit ==
    [ sourceLoaded |-> FALSE, targetLoaded |-> FALSE,
      scaleRatio |-> DefaultScaleRatio,
      sourceMeasurement |-> DefaultMeasurement,
      targetMeasurement |-> DefaultMeasurement,
      voxelSize |-> DefaultVoxelSize,
      method |-> "none",
      scaleFactor |-> <<1, 1>>,
      state |-> "Idle", iterations |-> 0, estimate |-> NoTransform,
      timelineShown |-> FALSE ]

Options ==
    [ outputFile : {"", "out.ply"},
      scaleRatio : 1..MaxRatio,
      sourceMeasurement : 0..MaxMeasurement,
      targetMeasurement : 1..MaxMeasurement,
      voxelSize : (-1)..MaxVoxel ]

Environment ==
    [ sourceLoad : {EXIT_SUCCESS, EXIT_FAILURE},
      targetLoad : {EXIT_SUCCESS, EXIT_FAILURE},
      nanAt : 0..MaxIterations,          \* iteration whose estimate has a NaN, 0: none
      convergedAt : 0..MaxIterations,    \* iteration meeting the tolerance, 0: none
      exportStatus : {EXIT_SUCCESS, EXIT_FAILURE} ]

Init ==
    /\ opt \in Options
    /\ env \in Environment
    /\ pc = [r \in Runs |-> "loadSource"]
    /\ reg = [r \in Runs |-> RegInit]
    /\ T = [r \in Runs |-> NoTransform]
    /\ exitStatus = [r \in Runs |-> -1]
    /\ error = [r \in Runs |-> "none"]
    /\ log = [r \in Runs |-> <<>>]
    /\ exportCalls = [r \in Runs |-> <<>>]

\* the runs are executed one after the other
Active(r) == \A q \in Runs : q < r => pc[q] = "done"

\* return from main() with a status
Return(r, status, err) ==
    /\ pc' = [pc EXCEPT ![r] = "done"]
    /\ exitStatus' = [exitStatus EXCEPT ![r] = status]
    /\ error' = [error EXCEPT ![r] = err]

Goto(r, label) ==
    /\ pc' = [pc EXCEPT ![r] = label]
    /\ UNCHANGED <<exitStatus, error>>

Event(r, e) == log' = [log EXCEPT ![r] = Append(@, e)]

\* the statements of main() from the first load on, in source order
StatementOrder ==
    << "loadSource", "loadTarget",
       "setScaleRatio", "setTargetMeasurement", "setSourceMeasurement", "setVoxelSize",
       "align", "display", "checkNaN", "timeline", "checkOutput", "export" >>

\* the statement after label in order
NextIn(order, label) ==
    LET i == CHOOSE j \in 1..Len(order) : order[j] = label
    IN  IF i < Len(order) THEN order[i + 1] ELSE "done"

\* the validity check left out of the sequence
NextStatement_Unchecked(label) ==
    NextIn(<< "loadSource", "loadTarget",
              "setScaleRatio", "setTargetMeasurement", "setSourceMeasurement",
              "setVoxelSize", "align", "display", "timeline", "checkOutput",
              "export" >>, label)

\* align called before the voxel size is set
NextStatement_AlignEarly(label) ==
    NextIn(<< "loadSource", "loadTarget",
              "setScaleRatio", "setTargetMeasurement", "setSourceMeasurement",
              "align", "setVoxelSize", "display", "checkNaN", "timeline",
              "checkOutput", "export" >>, label)

\* statement that follows each statement of main() when it does not return
NextStatement(label) == NextIn(StatementOrder, label)

\* a load failure that goes unnoticed
LoadFailed_Never(status) == FALSE

\* reg.load...Cloud(file) == EXIT_FAILURE
LoadFailed(status) == status = EXIT_FAILURE

\* ------------------------------------------------------------ Cloud Store
\* if (reg.loadSourceCloud(sourceFile) == EXIT_FAILURE) return EXIT_FAILURE;
LoadSource(r) ==
    /\ Active(r) /\ pc[r] = "loadSource"
    /\ Event(r, "loadSourceCloud")
    /\ IF LoadFailed(env.sourceLoad)
         THEN /\ Return(r, EXIT_FAILURE, "LoadError")
              /\ UNCHANGED reg
         ELSE /\ Goto(r, NextStatement("loadSource"))
              /\ reg' = [reg EXCEPT ![r].sourceLoaded = TRUE]
    /\ UNCHANGED <<opt, env, T, exportCalls>>

\* if (reg.loadTargetCloud(targetFile) == EXIT_FAILURE) return EXIT_FAILURE;
LoadTarget(r) ==
    /\ Active(r) /\ pc[r] = "loadTarget"
    /\ Event(r, "loadTargetCloud")
    /\ IF LoadFailed(env.targetLoad)
         THEN /\ Return(r, EXIT_FAILURE, "LoadError")
              /\ UNCHANGED reg
         ELSE /\ Goto(r, NextStatement("loadTarget"))
              /\ reg' = [reg EXCEPT ![r].targetLoaded = TRUE]
    /\ UNCHANGED <<opt, env, T, exportCalls>>

\* --------------------------------------------------------- Scale Resolver
\* arguments main() hands to the three scale setters
ScaleRatioArg(o) == o.scaleRatio
\* the source measurement handed over as target measurement
TargetMeasurementArg_Swapped(o) == o.sourceMeasurement
TargetMeasurementArg(o) == o.targetMeasurement
SourceMeasurementArg(o) == o.sourceMeasurement
VoxelSizeArg(o) == o.voxelSize

\* a measurement the ratio cannot be divided by
InvalidMeasurement(m) == m = 0
\* a leaf size no grid can be built from
InvalidVoxelSize(v) == v <= 0

\* scale factor as a fraction <<numerator, denominator>>
resolveScale(explicitRatio, sourceMeasurement, targetMeasurement) ==
    IF explicitRatio # DefaultScaleRatio
      THEN <<explicitRatio, 1>>
      ELSE <<targetMeasurement, sourceMeasurement>>

\* a configuration error that is swallowed, the run going on to align
ConfigFailure_Swallowed(r, err) ==
    /\ pc' = [pc EXCEPT ![r] = "align"]
    /\ UNCHANGED <<exitStatus, error>>

\* main() has no handler around the setters: a configuration error raised
\* by one of them leaves main() and ends the run with a failure status
ConfigFailure(r, err) == Return(r, EXIT_FAILURE, err)

\* reg.setScaleRatio(scaleRatio);
SetScaleRatio(r) ==
    /\ Active(r) /\ pc[r] = "setScaleRatio"
    /\ Event(r, "setScaleRatio")
    /\ reg' = [reg EXCEPT ![r].scaleRatio = ScaleRatioArg(opt)]
    /\ Goto(r, NextStatement("setScaleRatio"))
    /\ UNCHANGED <<opt, env, T, exportCalls>>

\* reg.setTargetMeasurement(targetMeasurement);
SetTargetMeasurement(r) ==
    /\ Active(r) /\ pc[r] = "setTargetMeasurement"
    /\ Event(r, "setTargetMeasurement")
    /\ reg' = [reg EXCEPT ![r].targetMeasurement = TargetMeasurementArg(opt)]
    /\ Goto(r, NextStatement("setTargetMeasurement"))
    /\ UNCHANGED <<opt, env, T, exportCalls>>

\* reg.setSourceMeasurement(sourceMeasurement);
SetSourceMeasurement(r) ==
    /\ Active(r) /\ pc[r] = "setSourceMeasurement"
    /\ Event(r, "setSourceMeasurement")
    /\ IF InvalidMeasurement(SourceMeasurementArg(opt))
         THEN /\ ConfigFailure(r, "ConfigError::InvalidMeasurement")
              /\ UNCHANGED reg
         ELSE /\ reg' = [reg EXCEPT ![r].sourceMeasurement = SourceMeasurementArg(opt)]
              /\ Goto(r, NextStatement("setSourceMeasurement"))
    /\ UNCHANGED <<opt, env, T, exportCalls>>

\* reg.setVoxelSize(voxelSize);
SetVoxelSize(r) ==
    /\ Active(r) /\ pc[r] = "setVoxelSize"
    /\ Event(r, "setVoxelSize")
    /\ IF InvalidVoxelSize(VoxelSizeArg(opt))
         THEN /\ ConfigFailure(r, "ConfigError::InvalidVoxelSize")
              /\ UNCHANGED reg
         ELSE /\ reg' = [reg EXCEPT ![r].voxelSize = VoxelSizeArg(opt)]
              /\ Goto(r, NextStatement("setVoxelSize"))
    /\ UNCHANGED <<opt, env, T, exportCalls>>

\* ------------------------------------------------------- Alignment Engine
Terminal == {"Converged", "MaxIterationsReached", "Diverged"}

\* transform estimated by iteration k
Estimate(e, k) == IF k = e.nanAt THEN NaNTransform(k) ELSE FiniteTransform(k)

\* an engine that keeps iterating on a not-a-number estimate
AfterIteration_KeepGoing(e, k, M) ==
    IF k = e.convergedAt THEN "Converged"
    ELSE IF k >= MaxIterations THEN "MaxIterationsReached"
    ELSE "Iterating"

\* state of the engine after iteration k produced estimate M
AfterIteration(e, k, M) ==
    IF hasNaN(M) THEN "Diverged"
    ELSE IF k = e.convergedAt THEN "Converged"
    ELSE IF k >= MaxIterations THEN "MaxIterationsReached"
    ELSE "Iterating"

\* const Eigen::Matrix4d T = reg.align(method);   -- the call
AlignCall(r) ==
    /\ Active(r) /\ pc[r] = "align"
    /\ Event(r, "align")
    /\ reg' = [reg EXCEPT
                 ![r].method = alignmentMethodName,
                 ![r].scaleFactor = resolveScale(reg[r].scaleRatio,
                                                 reg[r].sourceMeasurement,
                                                 reg[r].targetMeasurement),
                 ![r].state = "Initialized",
                 ![r].iterations = 0]
    /\ Goto(r, "aligning")
    /\ UNCHANGED <<opt, env, T, exportCalls>>

\* Initialized -> Iterating
AlignBegin(r) ==
    /\ Active(r) /\ pc[r] = "aligning" /\ reg[r].state = "Initialized"
    /\ reg' = [reg EXCEPT ![r].state = "Iterating"]
    /\ UNCHANGED <<opt, env, pc, T, exitStatus, error, log, exportCalls>>

\* one iteration: correspondences, incremental transform, convergence test
Iterate(r) ==
    /\ Active(r) /\ pc[r] = "aligning" /\ reg[r].state = "Iterating"
    /\ LET k == reg[r].iterations + 1
           M == Estimate(env, k)
       IN  reg' = [reg EXCEPT ![r].iterations = k,
                              ![r].estimate = M,
                              ![r].state = AfterIteration(env, k, M)]
    /\ UNCHANGED <<opt, env, pc, T, exitStatus, error, log, exportCalls>>

\* const Eigen::Matrix4d T = reg.align(method);   -- the return
AlignReturn(r) ==
    /\ Active(r) /\ pc[r] = "aligning" /\ reg[r].state \in Terminal
    /\ Event(r, "align.return")
    /\ T' = [T EXCEPT ![r] = reg[r].estimate]
    /\ Goto(r, NextStatement("align"))
    /\ UNCHANGED <<opt, env, reg, exportCalls>>

\* ------------------------------------------------------------- after align
\* ALICEVISION_LOG_WARNING of T, of its rotation and of its translation
Display(r) ==
    /\ Active(r) /\ pc[r] = "display"
    /\ log' = [log EXCEPT ![r] =
                 @ \o <<"display.transform", "display.rotation", "display.translation">>]
    /\ Goto(r, NextStatement("display"))
    /\ UNCHANGED <<opt, env, reg, T, exportCalls>>

\* if (T.hasNaN()) return EXIT_FAILURE;
CheckNaN(r) ==
    /\ Active(r) /\ pc[r] = "checkNaN"
    /\ Event(r, "hasNaN")
    /\ IF hasNaN(T[r])
         THEN Return(r, EXIT_FAILURE, "Diverged")
         ELSE Goto(r, NextStatement("checkNaN"))
    /\ UNCHANGED <<opt, env, reg, T, exportCalls>>

\* a timeline flag that decides whether the output path is looked at
AfterTimeline_Gating(shown) == IF shown THEN "export" ELSE "checkOutput"

\* label reached once the timeline statement is done
AfterTimeline(shown) == NextStatement("timeline")

\* if (showTimeline) reg.showTimeline();
ShowTimeline(r) ==
    /\ Active(r) /\ pc[r] = "timeline"
    /\ reg' = [reg EXCEPT ![r].timelineShown = showTimeline[r]]
    /\ Goto(r, AfterTimeline(showTimeline[r]))
    /\ UNCHANGED <<opt, env, T, log, exportCalls>>

\* an empty path taken for a path to write to
OutputEmpty_Never(file) == FALSE

\* outputFile.empty()
OutputEmpty(file) == file = ""

\* if (outputFile.empty()) return EXIT_SUCCESS;
CheckOutput(r) ==
    /\ Active(r) /\ pc[r] = "checkOutput"
    /\ IF OutputEmpty(opt.outputFile)
         THEN Return(r, EXIT_SUCCESS, "none")
         ELSE Goto(r, NextStatement("checkOutput"))
    /\ UNCHANGED <<opt, env, reg, T, log, exportCalls>>

\* the target cloud exported in place of the source cloud
ExportArgs_Target(r) == [source |-> targetFile, transform |-> T[r], output |-> opt.outputFile]

\* arguments of the export call
ExportArgs(r) == [source |-> sourceFile, transform |-> T[r], output |-> opt.outputFile]

\* return reg.tranformAndSaveCloud(sourceFile, T, outputFile);
Export(r) ==
    /\ Active(r) /\ pc[r] = "export"
    /\ Event(r, "export")
    /\ exportCalls' = [exportCalls EXCEPT ![r] = Append(@, ExportArgs(r))]
    /\ Return(r, env.exportStatus,
              IF env.exportStatus = EXIT_SUCCESS THEN "none" ELSE "ExportError")
    /\ UNCHANGED <<opt, env, reg, T>>

Next ==
    \E r \in Runs :
        \/ LoadSource(r)
        \/ LoadTarget(r)
        \/ SetScaleRatio(r)
        \/ SetTargetMeasurement(r)
        \/ SetSourceMeasurement(r)
        \/ SetVoxelSize(r)
        \/ AlignCall(r)
        \/ AlignBegin(r)
        \/ Iterate(r)
        \/ AlignReturn(r)
        \/ Display(r)
        \/ CheckNaN(r)
        \/ ShowTimeline(r)
        \/ CheckOutput(r)
        \/ Export(r)

Spec == Init /\ [][Next]_vars

\* the program always takes its next step until main() returns
FairSpec == Spec /\ WF_vars(Next)

TypeOK ==
    /\ opt \in Options
    /\ env \in Environment
    /\ \A r \in Runs : exitStatus[r] \in {-1, EXIT_SUCCESS, EXIT_FAILURE}

\* ================================================================= claims
Done(r) == pc[r] = "done"
Occurs(r, e) == \E i \in 1..Len(log[r]) : log[r][i] = e
Count(r, e) == Cardinality({i \in 1..Len(log[r]) : log[r][i] = e})
\* every occurrence of event e in run r comes after an occurrence of event d
Precedes(r, d, e) ==
    \A i \in 1..Len(log[r]) : log[r][i] = e => \E j \in 1..(i - 1) : log[r][j] = d
\* some coefficient of M is the not-a-number entry
ContainsNaN(M) == \E i \in 1..Len(M) : M[i] = NaN
AlignInvoked(r) == Occurs(r, "align") \/ reg[r].state # "Idle"
ExportInvoked(r) == Occurs(r, "export") \/ exportCalls[r] # <<>>
LoadsSucceed == env.sourceLoad = EXIT_SUCCESS /\ env.targetLoad = EXIT_SUCCESS
\* equality of two fractions <<numerator, denominator>>
SameFraction(a, b) == a[1] * b[2] = b[1] * a[2]

\* C1: when the source or the target cloud fails to load, the run ends with
\* a non-zero exit status and neither align nor export is ever invoked,
\* whatever the other options are.
C1_LoadFailureAborts ==
    \A r \in Runs :
        ~LoadsSucceed =>
            /\ ~AlignInvoked(r)
            /\ ~ExportInvoked(r)
            /\ Done(r) => exitStatus[r] # EXIT_SUCCESS

C1_Witness ==
    \E r \in Runs :
        /\ Done(r) /\ Occurs(r, "loadTargetCloud")
        /\ env.sourceLoad = EXIT_SUCCESS /\ env.targetLoad = EXIT_FAILURE
        /\ opt.outputFile # "" /\ exitStatus[r] = EXIT_FAILURE

\* C2: when the transform returned by align contains a not-a-number entry,
\* the run reports failure and export is skipped, with or without an
\* output path.
C2_NaNTransformFails ==
    \A r \in Runs :
        (Occurs(r, "align.return") /\ ContainsNaN(T[r])) =>
            /\ ~ExportInvoked(r)
            /\ Done(r) => exitStatus[r] # EXIT_SUCCESS

C2_Witness ==
    \E r \in Runs :
        /\ Done(r) /\ Occurs(r, "align.return") /\ ContainsNaN(T[r])
        /\ opt.outputFile # "" /\ exitStatus[r] = EXIT_FAILURE

\* C3 as stated: nothing of the transform is displayed before the validity
\* check has been made.
C3_DisplayAfterCheck ==
    \A r \in Runs :
        /\ Precedes(r, "hasNaN", "display.transform")
        /\ Precedes(r, "hasNaN", "display.rotation")
        /\ Precedes(r, "hasNaN", "display.translation")

\* C3 amended: the transform, its rotation and its translation are logged
\* right after align returns and before the validity check, also when the
\* transform has a not-a-number entry; the validity check is made before the
\* timeline is shown and before the transform is exported.
C3_CheckBeforeExport ==
    \A r \in Runs :
        /\ Precedes(r, "hasNaN", "export")
        /\ reg[r].timelineShown => Occurs(r, "hasNaN")
        /\ Precedes(r, "display.transform", "hasNaN")
        /\ Precedes(r, "display.rotation", "hasNaN")
        /\ Precedes(r, "display.translation", "hasNaN")
        /\ Precedes(r, "align.return", "display.transform")
        /\ Count(r, "hasNaN") <= 1

C3_Witness ==
    \E r \in Runs :
        /\ Occurs(r, "export") /\ Occurs(r, "hasNaN")
        /\ Occurs(r, "display.transform")

\* C4: a run in which both clouds load, the transform has no not-a-number
\* entry and no output path is given exits with success without invoking
\* export.
C4_EmptyOutputIsSuccess ==
    \A r \in Runs :
        ( /\ Done(r) /\ LoadsSucceed
          /\ Occurs(r, "align.return") /\ ~ContainsNaN(T[r])
          /\ opt.outputFile = "" ) =>
            /\ exitStatus[r] = EXIT_SUCCESS
            /\ ~ExportInvoked(r)

C4_Witness ==
    \E r \in Runs :
        /\ Done(r) /\ LoadsSucceed
        /\ Occurs(r, "align.return") /\ ~ContainsNaN(T[r])
        /\ opt.outputFile = "" /\ exitStatus[r] = EXIT_SUCCESS

\* C5: export is invoked at most once per run and, when it is, on the source
\* path of the command line, with the transform exactly as align returned
\* it and the given output path; the exit status of the run is the status
\* export returned.
C5_ExportOnceOnSource ==
    \A r \in Runs :
        /\ Len(exportCalls[r]) <= 1
        /\ Count(r, "export") = Len(exportCalls[r])
        /\ exportCalls[r] # <<>> =>
              /\ exportCalls[r][1].source = sourceFile
              /\ exportCalls[r][1].source # targetFile
              /\ exportCalls[r][1].transform = reg[r].estimate
              /\ exportCalls[r][1].output = opt.outputFile
              /\ opt.outputFile # ""
              /\ Occurs(r, "align.return")
              /\ Done(r) /\ exitStatus[r] = env.exportStatus

C5_Witness ==
    \E r \in Runs :
        /\ Len(exportCalls[r]) = 1 /\ Done(r)
        /\ env.exportStatus = EXIT_FAILURE /\ exitStatus[r] = EXIT_FAILURE
        /\ reg[r].state = "MaxIterationsReached"

\* C6: the scale factor in effect once align has started is the explicit
\* scale ratio when one other than the default is given, whatever the
\* measurements are; otherwise it is targetMeasurement / sourceMeasurement;
\* with all three at their default it is 1.
C6_ScaleResolution ==
    \A r \in Runs :
        AlignInvoked(r) =>
            /\ opt.scaleRatio # DefaultScaleRatio =>
                  SameFraction(reg[r].scaleFactor, <<opt.scaleRatio, 1>>)
            /\ opt.scaleRatio = DefaultScaleRatio =>
                  SameFraction(reg[r].scaleFactor,
                               <<opt.targetMeasurement, opt.sourceMeasurement>>)
            /\ ( /\ opt.scaleRatio = DefaultScaleRatio
                 /\ opt.sourceMeasurement = DefaultMeasurement
                 /\ opt.targetMeasurement = DefaultMeasurement ) =>
                  SameFraction(reg[r].scaleFactor, <<1, 1>>)

C6_Witness ==
    \E r \in Runs :
        /\ AlignInvoked(r)
        /\ opt.scaleRatio = DefaultScaleRatio
        /\ opt.targetMeasurement = 1 /\ opt.sourceMeasurement = 2
        /\ reg[r].scaleFactor = <<1, 2>>

AlignConfig(r) ==
    [ invoked |-> AlignInvoked(r), method |-> reg[r].method,
      scaleRatio |-> reg[r].scaleRatio,
      sourceMeasurement |-> reg[r].sourceMeasurement,
      targetMeasurement |-> reg[r].targetMeasurement,
      voxelSize |-> reg[r].voxelSize, scaleFactor |-> reg[r].scaleFactor ]

\* C8: two runs that differ only in showTimeline have the same exit status,
\* invoke align with the same configuration and agree on whether export is
\* invoked and with which arguments.
C8_TimelineDoesNotGate ==
    \A r1, r2 \in Runs :
        (Done(r1) /\ Done(r2)) =>
            /\ exitStatus[r1] = exitStatus[r2]
            /\ AlignConfig(r1) = AlignConfig(r2)
            /\ T[r1] = T[r2]
            /\ exportCalls[r1] = exportCalls[r2]

C8_Witness ==
    /\ Done(1) /\ Done(2)
    /\ showTimeline[1] /\ ~showTimeline[2]
    /\ reg[1].timelineShown /\ ~reg[2].timelineShown
    /\ Occurs(2, "hasNaN") /\ opt.outputFile = ""

\* the stages of a run, in the order the claim gives them
StageOrder ==
    << "loadSourceCloud", "loadTargetCloud",
       "setScaleRatio", "setTargetMeasurement", "setSourceMeasurement", "setVoxelSize",
       "align", "align.return", "export" >>

IsStage(e) == \E i \in 1..Len(StageOrder) : StageOrder[i] = e

IsPrefixOf(p, q) == Len(p) <= Len(q) /\ \A i \in 1..Len(p) : p[i] = q[i]

\* C9: the stages run in sequence, each at most once and each completing
\* before the next starts: load source, load target, scale / voxel
\* configuration, align, export; align starts only after both loads
\* succeeded and the ratio, both measurements and the voxel size are set,
\* and export starts only after align has returned.
C9_StagesInSequence ==
    \A r \in Runs :
        /\ IsPrefixOf(SelectSeq(log[r], IsStage), StageOrder)
        /\ AlignInvoked(r) =>
              /\ reg[r].sourceLoaded /\ reg[r].targetLoaded
              /\ reg[r].scaleRatio = opt.scaleRatio
              /\ reg[r].sourceMeasurement = opt.sourceMeasurement
              /\ reg[r].targetMeasurement = opt.targetMeasurement
              /\ reg[r].voxelSize = opt.voxelSize
        /\ reg[r].state \in {"Initialized", "Iterating"} => pc[r] = "aligning"
        /\ ExportInvoked(r) => reg[r].state \in Terminal

C9_Witness ==
    \E r \in Runs : SelectSeq(log[r], IsStage) = StageOrder

\* transitions of the engine
EngineEdges ==
    {<<"Idle", "Initialized">>, <<"Initialized", "Iterating">>}
        \cup {<<"Iterating", t>> : t \in Terminal}

\* C10: every invocation of align on two loaded clouds terminates: from
\* Initialized the engine enters Iterating and eventually reaches one of
\* Converged, MaxIterationsReached, Diverged, which it never leaves; the
\* number of iterations never exceeds the cap; the engine stops at the
\* first iteration whose estimate has a not-a-number entry.
C10_AlignTerminates ==
    /\ [](\A r \in Runs :
            /\ reg[r].iterations <= MaxIterations
            /\ ContainsNaN(reg[r].estimate) => reg[r].state = "Diverged"
            /\ reg[r].state = "Diverged" => ContainsNaN(reg[r].estimate)
            /\ reg[r].state = "Converged" => reg[r].iterations = env.convergedAt
            /\ reg[r].state = "MaxIterationsReached" => reg[r].iterations = MaxIterations
            /\ reg[r].state # "Idle" => reg[r].sourceLoaded /\ reg[r].targetLoaded)
    /\ [][\A r \in Runs :
            /\ reg'[r].state # reg[r].state =>
                  <<reg[r].state, reg'[r].state>> \in EngineEdges
            /\ reg[r].state \in Terminal =>
                  /\ reg'[r].state = reg[r].state
                  /\ reg'[r].iterations = reg[r].iterations
                  /\ reg'[r].estimate = reg[r].estimate]_vars
    /\ (reg[1].state = "Initialized") ~> (reg[1].state = "Iterating")
    /\ (reg[2].state = "Initialized") ~> (reg[2].state = "Iterating")
    /\ (reg[1].state = "Iterating") ~> (reg[1].state \in Terminal)
    /\ (reg[2].state = "Iterating") ~> (reg[2].state \in Terminal)

C10_Witness ==
    \E r \in Runs :
        /\ reg[r].state = "Diverged" /\ reg[r].iterations = 2
        /\ env.convergedAt = 3

====
